---- MODULE Spec2Model ----
(***************************************************************************)
(* The publish script of the site, scripts/publish.js: it copies the draft *)
(* _drafts/<name>.md to _posts/<year>-<month>-<date>-<name>.md.            *)
(*                                                                         *)
(* Strings are sequences of one-character strings, so that building a file *)
(* name is a real concatenation and a path is really split at "/".         *)
(* A file's content is a sequence of bytes.                                *)
(*                                                                         *)
(* The file as committed does not compile: line 5 has a ")" too many, and  *)
(* node ends every run with a SyntaxError before the first statement.  The *)
(* model holds both that file (parses = FALSE) and its statements as they  *)
(* run without the surplus ")" (parses = TRUE); see Start.                 *)
(***************************************************************************)
EXTENDS Integers, Sequences, FiniteSets, TLC

(***************************************************************************)
(* Bounds of the model.                                                    *)
(***************************************************************************)
\* number of invocations of the script in one behaviour
MaxInvocations == 2
\* number of seconds the clock advances in one behaviour
MaxTicks == 2
\* last year of the dates on which the script is run (SpecDate)
MaxYear == 2038

(***************************************************************************)
(* JavaScript values and conversions used by the script.                   *)
(***************************************************************************)
\* The value `undefined` (args[0] of an empty argument list). It is a
\* one-element tuple holding a whole word, so it equals no string.
Undefined == <<"undefined">>

\* ToString(undefined), as "+" applies it when it concatenates.
UndefinedStr == <<"u","n","d","e","f","i","n","e","d">>

Digit(n) == CASE n = 0 -> "0" [] n = 1 -> "1" [] n = 2 -> "2" [] n = 3 -> "3"
              [] n = 4 -> "4" [] n = 5 -> "5" [] n = 6 -> "6" [] n = 7 -> "7"
              [] n = 8 -> "8" [] n = 9 -> "9"

\* ToString(n) of a non-negative integer: decimal, no padding.
RECURSIVE NumStr(_)
NumStr(n) == IF n < 10 THEN <<Digit(n)>> ELSE NumStr(n \div 10) \o <<Digit(n % 10)>>

\* Two digits, zero-padded (used by Date.prototype.toString only).
Pad2(n) == <<Digit((n \div 10) % 10), Digit(n % 10)>>

(***************************************************************************)
(* The Date object.  A time value is [day, sec]: the local day number      *)
(* counted from 1970-01-01 and the second within that day.                 *)
(***************************************************************************)
SecPerDay == 86400

\* ECMAScript DayFromYear(y): the day number of January 1st of year y.
DayFromYear(y) ==
    365 * (y - 1970) + ((y - 1969) \div 4) - ((y - 1901) \div 100) + ((y - 1601) \div 400)

InLeapYear(y) == (y % 4 = 0) /\ ((y % 100 # 0) \/ (y % 400 = 0))

\* ECMAScript YearFromTime: the largest y with DayFromYear(y) <= day.
YearFromTime(t) ==
    CHOOSE y \in (1970 + t.day \div 366)..(1970 + t.day \div 365) :
        DayFromYear(y) <= t.day /\ t.day < DayFromYear(y + 1)

DayWithinYear(t) == t.day - DayFromYear(YearFromTime(t))

\* Number of days of the year before month m (0-based) starts.
MonthStart(m, leap) ==
    LET l == IF leap THEN 1 ELSE 0
    IN  CASE m = 0 -> 0 [] m = 1 -> 31 [] m = 2 -> 59 + l [] m = 3 -> 90 + l
          [] m = 4 -> 120 + l [] m = 5 -> 151 + l [] m = 6 -> 181 + l
          [] m = 7 -> 212 + l [] m = 8 -> 243 + l [] m = 9 -> 273 + l
          [] m = 10 -> 304 + l [] m = 11 -> 334 + l [] m = 12 -> 365 + l

\* ECMAScript MonthFromTime: 0 for January .. 11 for December.
MonthFromTime(t) ==
    LET leap == InLeapYear(YearFromTime(t))
        d == DayWithinYear(t)
    IN  CHOOSE m \in 0..11 : MonthStart(m, leap) <= d /\ d < MonthStart(m + 1, leap)

\* ECMAScript DateFromTime: the day of the month, 1..31.
DateFromTime(t) ==
    DayWithinYear(t) - MonthStart(MonthFromTime(t), InLeapYear(YearFromTime(t))) + 1

\* ECMAScript WeekDay: 0 for Sunday; 1970-01-01 was a Thursday.
WeekDay(t) == (t.day + 4) % 7

\* Variant: a getYear that yields the last two digits of the year.
getYearTwoDigits(t) == YearFromTime(t) % 100

\* date.getMonth(), date.getDate(), date.getYear()
getMonth(t) == MonthFromTime(t)
getDate(t) == DateFromTime(t)
getYear(t) == YearFromTime(t) - 1900

DayName(w) ==
    CASE w = 0 -> <<"S","u","n">> [] w = 1 -> <<"M","o","n">> [] w = 2 -> <<"T","u","e">>
      [] w = 3 -> <<"W","e","d">> [] w = 4 -> <<"T","h","u">> [] w = 5 -> <<"F","r","i">>
      [] w = 6 -> <<"S","a","t">>

MonthName(m) ==
    CASE m = 0 -> <<"J","a","n">> [] m = 1 -> <<"F","e","b">> [] m = 2 -> <<"M","a","r">>
      [] m = 3 -> <<"A","p","r">> [] m = 4 -> <<"M","a","y">> [] m = 5 -> <<"J","u","n">>
      [] m = 6 -> <<"J","u","l">> [] m = 7 -> <<"A","u","g">> [] m = 8 -> <<"S","e","p">>
      [] m = 9 -> <<"O","c","t">> [] m = 10 -> <<"N","o","v">> [] m = 11 -> <<"D","e","c">>

\* The zone suffix of Date.prototype.toString for a machine on UTC.
ZoneStr == <<"G","M","T","+","0","0","0","0"," ","(","U","T","C",")">>

\* ToString(date) = Date.prototype.toString(), which is what "+" applies to
\* the Date object on line 12:  "Thu Mar 07 2024 23:59:58 GMT+0000 (UTC)".
DateToString(t) ==
    DayName(WeekDay(t)) \o <<" ">> \o MonthName(MonthFromTime(t)) \o <<" ">>
      \o Pad2(DateFromTime(t)) \o <<" ">> \o NumStr(YearFromTime(t)) \o <<" ">>
      \o Pad2(t.sec \div 3600) \o <<":">> \o Pad2((t.sec \div 60) % 60) \o <<":">>
      \o Pad2(t.sec % 60) \o <<" ">> \o ZoneStr

(***************************************************************************)
(* The file system as fs sees it.  A path is resolved from the site's      *)
(* directory, the working directory of the script.  A resolved path is the *)
(* sequence of its components; <<>> is the site's directory itself.        *)
(*   fs.dirs  : directory -> "rw" | "ro"   ("ro": it refuses every write,  *)
(*              as a read-only mount does)                                 *)
(*   fs.files : file -> [data, readable]                                   *)
(***************************************************************************)
DraftsName == <<"_","d","r","a","f","t","s">>
PostsName == <<"_","p","o","s","t","s">>
DotDot == <<".",".">>
MdExt == <<".","m","d">>

\* The components of a path string, split at every "/".
SplitPath(s) ==
    LET cuts == {i \in 1..Len(s) : s[i] = "/"}
        n == Cardinality(cuts)
        cut(k) == IF k = 0 THEN 0
                  ELSE IF k = n + 1 THEN Len(s) + 1
                  ELSE CHOOSE i \in cuts : Cardinality({j \in cuts : j < i}) = k - 1
    IN  [k \in 1..(n + 1) |-> SubSeq(s, cut(k - 1) + 1, cut(k) - 1)]

\* Path resolution: every component but the last must name a directory.
RECURSIVE Walk(_, _, _)
Walk(dirs, comps, cur) ==
    IF Len(comps) = 1 THEN [ok |-> TRUE, path |-> Append(cur, comps[1])]
    ELSE LET c == Head(comps)
         IN  IF c = <<>> \/ c = <<".">> THEN Walk(dirs, Tail(comps), cur)
             ELSE IF c = DotDot
                  THEN Walk(dirs, Tail(comps),
                            IF cur = <<>> \/ cur[Len(cur)] = DotDot
                            THEN Append(cur, DotDot)
                            ELSE SubSeq(cur, 1, Len(cur) - 1))
             ELSE IF Append(cur, c) \in DOMAIN dirs
                  THEN Walk(dirs, Tail(comps), Append(cur, c))
                  ELSE [ok |-> FALSE, path |-> <<>>]

\* (The path is split once and walked once: the value is bound before use.)
Resolve(f, path) ==
    CHOOSE r \in {Walk(f.dirs, c, <<>>) : c \in {SplitPath(s) : s \in {path}}} : TRUE

\* The directory a resolved file path lies in.
Parent(rp) == SubSeq(rp, 1, Len(rp) - 1)

\* Whether path names a file that exists and may be read.
Readable(f, path) ==
    LET r == Resolve(f, path)
    IN  r.ok /\ r.path \in DOMAIN f.files /\ f.files[r.path].readable

\* Variant: a read that yields an empty buffer where readFileSync throws.
readFileSyncNoThrow(f, path) ==
    LET r == Resolve(f, path)
    IN  IF r.ok /\ r.path \in DOMAIN f.files /\ f.files[r.path].readable
        THEN [err |-> "", data |-> f.files[r.path].data]
        ELSE [err |-> "", data |-> <<>>]

\* fs.readFileSync(path): the whole content, or the error it throws.
readFileSync(f, path) ==
    LET r == Resolve(f, path)
    IN  IF ~r.ok \/ r.path \notin DOMAIN f.files THEN [err |-> "ENOENT", data |-> <<>>]
        ELSE IF ~f.files[r.path].readable THEN [err |-> "EACCES", data |-> <<>>]
        ELSE [err |-> "", data |-> f.files[r.path].data]

\* Variant: open with a flag that creates the file but keeps what it holds.
openSyncNoTrunc(f, path) ==
    LET r == Resolve(f, path)
    IN  IF ~r.ok THEN [err |-> "ENOENT", fs |-> f, path |-> <<>>]
        ELSE IF f.dirs[Parent(r.path)] # "rw" THEN [err |-> "EACCES", fs |-> f, path |-> <<>>]
        ELSE [err |-> "",
              fs |-> [f EXCEPT !.files =
                        IF r.path \in DOMAIN f.files THEN f.files
                        ELSE (r.path :> [data |-> <<>>, readable |-> TRUE]) @@ f.files],
              path |-> r.path]

\* Variant: open that does not honour a directory that refuses writes.
openSyncUnchecked(f, path) ==
    LET r == Resolve(f, path)
    IN  IF ~r.ok THEN [err |-> "ENOENT", fs |-> f, path |-> <<>>]
        ELSE [err |-> "",
              fs |-> [f EXCEPT !.files =
                        (r.path :> [data |-> <<>>, readable |-> TRUE]) @@ f.files],
              path |-> r.path]

\* fs.writeFileSync(path, data), first half: open(path, "w"), which creates the
\* file or truncates it to length 0, or throws.
openSync(f, path) ==
    LET r == Resolve(f, path)
    IN  IF ~r.ok THEN [err |-> "ENOENT", fs |-> f, path |-> <<>>]
        ELSE IF f.dirs[Parent(r.path)] # "rw" THEN [err |-> "EACCES", fs |-> f, path |-> <<>>]
        ELSE [err |-> "",
              fs |-> [f EXCEPT !.files =
                        (r.path :> [data |-> <<>>,
                                    readable |-> IF r.path \in DOMAIN f.files
                                                 THEN f.files[r.path].readable ELSE TRUE])
                          @@ f.files],
              path |-> r.path]

\* fs.writeFileSync, second half: the first n bytes of data are written from
\* offset 0 of the open file rp (n = Len(data) unless the write fails).
writeSync(f, rp, data, n) ==
    LET old == f.files[rp].data
    IN  [f EXCEPT !.files[rp].data = SubSeq(data, 1, n) \o SubSeq(old, n + 1, Len(old))]

(***************************************************************************)
(* The script, statement by statement.                                     *)
(***************************************************************************)
Slash == <<"/">>
Dash == <<"-">>

\* ToString of a value that "+" concatenates to a string.
ToStr(v) == IF v = Undefined THEN UndefinedStr ELSE v

\* Variant: the last argument taken where the script takes args[0].
ArgLast(args) == IF Len(args) = 0 THEN Undefined ELSE args[Len(args)]

\* line 4: args = process.argv.slice(2); args[0] is undefined when it is empty
Arg0(args) == IF Len(args) = 0 THEN Undefined ELSE args[1]

\* line 5: "_drafts/" + args[0] + ".md"
DraftPath(args) == DraftsName \o Slash \o ToStr(Arg0(args)) \o MdExt

\* Variant: the month as getMonth() yields it, 0 for January.
monthZeroBased(t) == getMonth(t)

\* Variant: the year taken from a second sample of the clock, a second later.
yearLater(t) ==
    YearFromTime(IF t.sec = SecPerDay - 1 THEN [day |-> t.day + 1, sec |-> 0]
                 ELSE [day |-> t.day, sec |-> t.sec + 1])

\* line 8: month = date.getMonth() + 1
month(t) == getMonth(t) + 1
\* line 9: day = date.getDate()
day(t) == getDate(t)
\* line 10: year = date.getYear() + 1900
year(t) == getYear(t) + 1900

\* Variant: year-month-day followed by the base name without a separator.
fileNameDayBase(t, args) ==
    NumStr(year(t)) \o Dash \o NumStr(month(t)) \o Dash \o NumStr(day(t))
      \o ToStr(Arg0(args)) \o MdExt

\* Variant: a file name made of the base name alone, without the date.
fileNameNoDate(t, args) == ToStr(Arg0(args)) \o MdExt

\* Variant: a file name made of the date alone, without the base name.
fileNameNoBase(t, args) ==
    NumStr(year(t)) \o Dash \o NumStr(month(t)) \o Dash \o DateToString(t) \o MdExt

\* line 12: year + "-" + month + "-" + date + "-" + args[0] + ".md".  The third
\* operand is the Date object `date`, not the number `day`.
fileName(t, args) ==
    NumStr(year(t)) \o Dash \o NumStr(month(t)) \o Dash \o DateToString(t)
      \o Dash \o ToStr(Arg0(args)) \o MdExt

\* Variant: the post written into the drafts directory.
PostPathInDrafts(fname) == DraftsName \o Slash \o fname

\* Variant: the post written under a fixed name, fileName unused.
PostPathIndex(fname) == PostsName \o Slash \o <<"i","n","d","e","x">> \o MdExt

\* line 13: "_posts/" + fileName
PostPath(fname) == PostsName \o Slash \o fname

(***************************************************************************)
(* State.                                                                  *)
(***************************************************************************)
Procs == 1..MaxInvocations

VARIABLES
    parses,    \* whether node accepts the file of the script (see Start)
    clock,     \* the local time, [day, sec]
    fs,        \* the file system, [dirs, files]
    pc,        \* pc[p]: where invocation p stands
    args,      \* args[p]: process.argv.slice(2)
    data,      \* data[p]: the variable `data` (undefined until line 5 has run)
    date,      \* date[p]: the variable `date` (undefined until line 7 has run)
    name,      \* name[p]: the variable `fileName` (undefined until line 12)
    fd,        \* fd[p]: the file writeFileSync holds open, <<>> when none
    exit,      \* exit[p]: the exit status of the process, -1 while it runs
    err,       \* err[p]: the error that ended the process, "" when none
    before,    \* before[p]: the posts when invocation p started       (history)
    io,        \* io[p]: the file operations invocation p made         (history)
               \*   [op, ok, old: the post's content before the open,
               \*    draft: the draft's content at the read, at the write]
    authored   \* the drafts as the author left them                   (history)

vars == <<parses, clock, fs, pc, args, data, date, name, fd, exit, err, before, io, authored>>

Terminal == {"Done", "Failed"}

\* Contents of files: sequences of bytes.
ContentA == <<"#","1">>
ContentB == <<"x">>
Contents == {ContentA, ContentB}

\* Base names given on the command line.
NameA == <<"a">>
NameB == <<"b">>
BaseNames == {NameA, NameB}

\* The argument lists an invocation is started with.
ArgLists == {<<>>} \cup {<<b>> : b \in BaseNames}

\* The names of the drafts that may exist, and of those the author edits.
DraftNames == {NameA, UndefinedStr}
EditedNames == {NameA}

DraftFile(b) == <<DraftsName, b \o MdExt>>

\* A post published before the script existed.
LegacyPost == <<PostsName, <<"2","0","1","4","-","0","6","-","2","5","-","a",".","m","d">> >>

\* The files of directory d.
FilesIn(files, d) == [rp \in {q \in DOMAIN files : Parent(q) = d} |-> files[rp]]
Drafts(files) == FilesIn(files, <<DraftsName>>)
Posts(files) == FilesIn(files, <<PostsName>>)

StartTime == [day |-> 19789, sec |-> SecPerDay - 2]   \* 2024-03-07 23:59:58

Elapsed(t) == (t.day - StartTime.day) * SecPerDay + t.sec - StartTime.sec

Init ==
    /\ parses \in BOOLEAN
    /\ clock = StartTime
    /\ \E postsMode \in {"rw", "ro", "absent"},
          draftA \in {"absent", "readable", "unreadable"},
          draftU \in {"absent", "readable"} :
         fs = [dirs |-> (IF postsMode = "absent" THEN << >>
                         ELSE (<<PostsName>> :> postsMode))
                        @@ (<<DraftsName>> :> "rw") @@ (<<>> :> "rw") @@ (<<DotDot>> :> "rw"),
               files |-> (IF postsMode = "absent" THEN << >>
                          ELSE (LegacyPost :> [data |-> ContentB, readable |-> TRUE]))
                         @@ (IF draftA = "absent" THEN << >>
                             ELSE (DraftFile(NameA) :>
                                     [data |-> ContentA, readable |-> draftA = "readable"]))
                         @@ (IF draftU = "absent" THEN << >>
                             ELSE (DraftFile(UndefinedStr) :>
                                     [data |-> ContentA, readable |-> TRUE]))]
    /\ pc = [p \in Procs |-> "Idle"]
    /\ args = [p \in Procs |-> <<>>]
    /\ data = [p \in Procs |-> Undefined]
    /\ date = [p \in Procs |-> Undefined]
    /\ name = [p \in Procs |-> Undefined]
    /\ fd = [p \in Procs |-> <<>>]
    /\ exit = [p \in Procs |-> -1]
    /\ err = [p \in Procs |-> ""]
    /\ before = [p \in Procs |-> << >>]
    /\ io = [p \in Procs |-> << >>]
    /\ authored = Drafts(fs.files)

\* Variant: an error is caught and the script is run again.
FailRetry(p, e) ==
    /\ pc' = [pc EXCEPT ![p] = "Idle"]
    /\ exit' = [exit EXCEPT ![p] = 1]
    /\ err' = [err EXCEPT ![p] = e]

(***************************************************************************)
(* The steps of one invocation,  `scripts/publish.js <args>`.              *)
(***************************************************************************)
Fail(p, e) ==
    /\ pc' = [pc EXCEPT ![p] = "Failed"]
    /\ exit' = [exit EXCEPT ![p] = 1]
    /\ err' = [err EXCEPT ![p] = e]

\* node compiles the whole file before it runs the first statement.  Line 5
\* of the committed file,
\*     var data = fs.readFileSync("_drafts/" + args[0] + ".md"));
\* closes one parenthesis more than it opens: node reports a SyntaxError and
\* exits with status 1, and no statement runs (parses = FALSE).  The
\* statements of lines 3-13 run only once the surplus ")" is gone
\* (parses = TRUE).  Then line 4 sets args.
Start(p, av) ==
    /\ pc[p] = "Idle"
    /\ before' = [before EXCEPT ![p] = Posts(fs.files)]
    /\ IF parses
       THEN /\ pc' = [pc EXCEPT ![p] = "Loaded"]
            /\ args' = [args EXCEPT ![p] = av]
            /\ UNCHANGED <<exit, err>>
       ELSE /\ Fail(p, "SyntaxError")
            /\ UNCHANGED args
    /\ UNCHANGED <<parses, clock, fs, data, date, name, fd, io, authored>>

\* The content, at this moment, of the draft invocation p names (history only).
DraftNow(p) ==
    LET r == Resolve(fs, DraftPath(args[p]))
    IN  IF r.ok /\ r.path \in DOMAIN fs.files THEN fs.files[r.path].data ELSE Undefined

\* Variant: the draft read again at the time of the write.
WrittenDataReread(p) == IF DraftNow(p) = Undefined THEN <<>> ELSE DraftNow(p)

\* line 13: the second argument of writeFileSync is the variable data.
WrittenData(p) == data[p]

\* line 5: data = fs.readFileSync("_drafts/" + args[0] + ".md"); an error it
\* throws is caught nowhere and ends the process.
ReadDraft(p) ==
    /\ pc[p] = "Loaded"
    /\ LET path == DraftPath(args[p])
           r == readFileSync(fs, path)
       IN  /\ io' = [io EXCEPT ![p] = Append(@, [op |-> "read",
                                                  ok |-> Readable(fs, path),
                                                  old |-> Undefined,
                                                  draft |-> DraftNow(p)])]
           /\ IF r.err = ""
              THEN /\ data' = [data EXCEPT ![p] = r.data]
                   /\ pc' = [pc EXCEPT ![p] = "Read"]
                   /\ UNCHANGED <<exit, err>>
              ELSE /\ Fail(p, r.err)
                   /\ UNCHANGED data
    /\ UNCHANGED <<parses, clock, fs, args, date, name, fd, before, authored>>

\* lines 7-12: date = new Date(), then month, day, year and fileName, all
\* computed from that one Date object.
SampleDate(p) ==
    /\ pc[p] = "Read"
    /\ date' = [date EXCEPT ![p] = clock]
    /\ name' = [name EXCEPT ![p] = fileName(clock, args[p])]
    /\ pc' = [pc EXCEPT ![p] = "Named"]
    /\ UNCHANGED <<parses, clock, fs, args, data, fd, exit, err, before, io, authored>>

\* line 13, fs.writeFileSync("_posts/" + fileName, data): it opens the file
\* with flag "w" ...
OpenPost(p) ==
    /\ pc[p] = "Named"
    /\ LET path == PostPath(name[p])
           r == openSync(fs, path)
           q == Resolve(fs, path)
       IN  /\ io' = [io EXCEPT ![p] = Append(@, [op |-> "open",
                                                  ok |-> r.err = "",
                                                  old |-> IF q.ok /\ q.path \in DOMAIN fs.files
                                                          THEN fs.files[q.path].data
                                                          ELSE Undefined,
                                                  draft |-> Undefined])]
           /\ IF r.err = ""
              THEN /\ fs' = r.fs
                   /\ fd' = [fd EXCEPT ![p] = r.path]
                   /\ pc' = [pc EXCEPT ![p] = "Opened"]
                   /\ UNCHANGED <<exit, err>>
              ELSE /\ Fail(p, r.err)
                   /\ UNCHANGED <<fs, fd>>
    /\ UNCHANGED <<parses, clock, args, data, date, name, before, authored>>

\* ... and writes the buffer to it.  The write either completes, and the
\* script ends with status 0, or fails after n < Len(data) bytes (the disk is
\* full, say) with an error that ends the process.
WritePost(p) ==
    /\ pc[p] = "Opened"
    /\ \E n \in 0..Len(WrittenData(p)) :
         /\ fs' = writeSync(fs, fd[p], WrittenData(p), n)
         /\ io' = [io EXCEPT ![p] = Append(@, [op |-> "write",
                                                ok |-> n = Len(WrittenData(p)),
                                                old |-> Undefined,
                                                draft |-> DraftNow(p)])]
         /\ IF n = Len(WrittenData(p))
            THEN /\ pc' = [pc EXCEPT ![p] = "Done"]
                 /\ exit' = [exit EXCEPT ![p] = 0]
                 /\ UNCHANGED err
            ELSE Fail(p, "ENOSPC")
    /\ fd' = [fd EXCEPT ![p] = <<>>]
    /\ UNCHANGED <<parses, clock, args, data, date, name, before, authored>>

(***************************************************************************)
(* The environment: the author, who edits drafts, and the clock.           *)
(***************************************************************************)
AuthorEdits(b, c) ==
    /\ DraftFile(b) \in DOMAIN fs.files
    /\ fs.files[DraftFile(b)].data # c
    /\ fs' = [fs EXCEPT !.files[DraftFile(b)].data = c]
    /\ authored' = [authored EXCEPT ![DraftFile(b)].data = c]
    /\ UNCHANGED <<parses, clock, pc, args, data, date, name, fd, exit, err, before, io>>

Tick ==
    /\ Elapsed(clock) < MaxTicks
    /\ clock' = IF clock.sec = SecPerDay - 1
                THEN [day |-> clock.day + 1, sec |-> 0]
                ELSE [day |-> clock.day, sec |-> clock.sec + 1]
    /\ UNCHANGED <<parses, fs, pc, args, data, date, name, fd, exit, err, before, io, authored>>

(***************************************************************************)
(* Spec: the script is run MaxInvocations times, one run after the other,  *)
(* while the author and the clock go on.                                   *)
(***************************************************************************)
\* Invocation p may start: the earlier ones have ended, the later ones have
\* not started.
Quiet(p) ==
    /\ \A q \in Procs : q < p => pc[q] \in Terminal
    /\ \A q \in Procs : q > p => pc[q] = "Idle"

Next ==
    \/ \E p \in Procs, av \in ArgLists : Quiet(p) /\ Start(p, av)
    \/ \E p \in Procs : ReadDraft(p)
    \/ \E p \in Procs : SampleDate(p)
    \/ \E p \in Procs : OpenPost(p)
    \/ \E p \in Procs : WritePost(p)
    \/ \E b \in EditedNames, c \in Contents : AuthorEdits(b, c)
    \/ Tick

Spec == Init /\ [][Next]_vars

(***************************************************************************)
(* FairSpec: Spec, and a process that has been started keeps running: node *)
(* executes the statements one after the other, every call is synchronous  *)
(* and returns or throws.  Nothing obliges anyone to start the script.     *)
(***************************************************************************)
Run(p) == ReadDraft(p) \/ SampleDate(p) \/ OpenPost(p) \/ WritePost(p)

FairSpec == Spec /\ \A p \in Procs : WF_vars(Run(p))

(***************************************************************************)
(* SpecDate: one run of the script on any day from 1970-01-01 to the end   *)
(* of MaxYear, early or late in the day, with a readable draft and a       *)
(* writable posts directory.                                               *)
(***************************************************************************)
DateProcs == {1}

ClockDays == DayFromYear(1970)..(DayFromYear(MaxYear + 1) - 1)

InitDate ==
    /\ parses \in BOOLEAN
    /\ clock \in [day : ClockDays, sec : {0, SecPerDay - 1}]
    /\ fs = [dirs |-> (<<PostsName>> :> "rw") @@ (<<DraftsName>> :> "rw")
                        @@ (<<>> :> "rw") @@ (<<DotDot>> :> "rw"),
             files |-> (LegacyPost :> [data |-> ContentB, readable |-> TRUE])
                        @@ (DraftFile(NameA) :> [data |-> ContentA, readable |-> TRUE])]
    /\ pc = [p \in Procs |-> "Idle"]
    /\ args = [p \in Procs |-> <<>>]
    /\ data = [p \in Procs |-> Undefined]
    /\ date = [p \in Procs |-> Undefined]
    /\ name = [p \in Procs |-> Undefined]
    /\ fd = [p \in Procs |-> <<>>]
    /\ exit = [p \in Procs |-> -1]
    /\ err = [p \in Procs |-> ""]
    /\ before = [p \in Procs |-> << >>]
    /\ io = [p \in Procs |-> <<>>]
    /\ authored = Drafts(fs.files)

NextDate ==
    \/ \E p \in DateProcs : Start(p, <<NameA>>)
    \/ \E p \in DateProcs : ReadDraft(p)
    \/ \E p \in DateProcs : SampleDate(p)
    \/ \E p \in DateProcs : OpenPost(p)
    \/ \E p \in DateProcs : WritePost(p)

SpecDate == InitDate /\ [][NextDate]_vars

(***************************************************************************)
(* SpecPath: the script is run with base names that carry a directory      *)
(* component, "../x" and "a/b", next to the plain "a".  The site's         *)
(* directory may hold a file x.md, and the drafts a directory a with a     *)
(* file b.md.                                                              *)
(***************************************************************************)
NameUp == <<".", ".", "/", "x">>
NameSub == <<"a", "/", "b">>
PathArgLists == {<<NameA>>, <<NameUp>>, <<NameSub>>}

SiteFile == << <<"x">> \o MdExt >>
SubDraft == <<DraftsName, NameA, <<"b">> \o MdExt>>

InitPath ==
    /\ parses \in BOOLEAN
    /\ clock = StartTime
    /\ \E siteFile \in BOOLEAN, subDir \in BOOLEAN :
         fs = [dirs |-> (IF subDir THEN (<<DraftsName, NameA>> :> "rw") ELSE << >>)
                        @@ (<<PostsName>> :> "rw") @@ (<<DraftsName>> :> "rw")
                        @@ (<<>> :> "rw") @@ (<<DotDot>> :> "rw"),
               files |-> (IF siteFile THEN (SiteFile :> [data |-> ContentB, readable |-> TRUE])
                          ELSE << >>)
                         @@ (IF subDir THEN (SubDraft :> [data |-> ContentB, readable |-> TRUE])
                             ELSE << >>)
                         @@ (LegacyPost :> [data |-> ContentB, readable |-> TRUE])
                         @@ (DraftFile(NameA) :> [data |-> ContentA, readable |-> TRUE])]
    /\ pc = [p \in Procs |-> "Idle"]
    /\ args = [p \in Procs |-> <<>>]
    /\ data = [p \in Procs |-> Undefined]
    /\ date = [p \in Procs |-> Undefined]
    /\ name = [p \in Procs |-> Undefined]
    /\ fd = [p \in Procs |-> <<>>]
    /\ exit = [p \in Procs |-> -1]
    /\ err = [p \in Procs |-> ""]
    /\ before = [p \in Procs |-> << >>]
    /\ io = [p \in Procs |-> <<>>]
    /\ authored = Drafts(fs.files)

NextPath ==
    \/ \E p \in Procs, av \in PathArgLists : Quiet(p) /\ Start(p, av)
    \/ \E p \in Procs : ReadDraft(p)
    \/ \E p \in Procs : SampleDate(p)
    \/ \E p \in Procs : OpenPost(p)
    \/ \E p \in Procs : WritePost(p)
    \/ \E b \in EditedNames, c \in Contents : AuthorEdits(b, c)
    \/ Tick

SpecPath == InitPath /\ [][NextPath]_vars

(***************************************************************************)
(* SpecConc: the invocations run as concurrent processes.  Each is started *)
(* with base name a or b; the statements of different invocations          *)
(* interleave in any order, and every file operation is one step.          *)
(***************************************************************************)
ConcArgLists == {<<NameA>>, <<NameB>>}

InitConc ==
    /\ parses \in BOOLEAN
    /\ clock = StartTime
    /\ fs = [dirs |-> (<<PostsName>> :> "rw") @@ (<<DraftsName>> :> "rw")
                        @@ (<<>> :> "rw") @@ (<<DotDot>> :> "rw"),
             files |-> (LegacyPost :> [data |-> ContentB, readable |-> TRUE])
                        @@ (DraftFile(NameA) :> [data |-> ContentA, readable |-> TRUE])
                        @@ (DraftFile(NameB) :> [data |-> ContentB, readable |-> TRUE])]
    /\ pc = [p \in Procs |-> "Idle"]
    /\ args = [p \in Procs |-> <<>>]
    /\ data = [p \in Procs |-> Undefined]
    /\ date = [p \in Procs |-> Undefined]
    /\ name = [p \in Procs |-> Undefined]
    /\ fd = [p \in Procs |-> <<>>]
    /\ exit = [p \in Procs |-> -1]
    /\ err = [p \in Procs |-> ""]
    /\ before = [p \in Procs |-> << >>]
    /\ io = [p \in Procs |-> <<>>]
    /\ authored = Drafts(fs.files)

NextConc ==
    \/ \E p \in Procs, av \in ConcArgLists : Start(p, av)
    \/ \E p \in Procs : ReadDraft(p)
    \/ \E p \in Procs : SampleDate(p)
    \/ \E p \in Procs : OpenPost(p)
    \/ \E p \in Procs : WritePost(p)
    \/ \E b \in EditedNames, c \in Contents : AuthorEdits(b, c)
    \/ Tick

SpecConc == InitConc /\ [][NextConc]_vars

(***************************************************************************)
(* SpecDays: the script is run on different days.  The base names carry    *)
(* digits and hyphens ("1-a", "-a"); the runs fall on December 3rd and on   *)
(* December 31st of 2024, one second before midnight or just after it, and *)
(* days may pass between two runs.                                         *)
(***************************************************************************)
NameDigit == <<"1", "-", "a">>
NameHyphen == <<"-", "a">>
DayArgLists == {<<NameDigit>>, <<NameHyphen>>}

SampleDays ==
    {DayFromYear(2025) - 29, DayFromYear(2025) - 1}

InitDays ==
    /\ parses \in BOOLEAN
    /\ clock \in [day : SampleDays, sec : {SecPerDay - 1}]
    /\ fs = [dirs |-> (<<PostsName>> :> "rw") @@ (<<DraftsName>> :> "rw")
                        @@ (<<>> :> "rw") @@ (<<DotDot>> :> "rw"),
             files |-> (LegacyPost :> [data |-> ContentB, readable |-> TRUE])
                        @@ (DraftFile(NameDigit) :> [data |-> ContentA, readable |-> TRUE])
                        @@ (DraftFile(NameHyphen) :> [data |-> ContentB, readable |-> TRUE])]
    /\ pc = [p \in Procs |-> "Idle"]
    /\ args = [p \in Procs |-> <<>>]
    /\ data = [p \in Procs |-> Undefined]
    /\ date = [p \in Procs |-> Undefined]
    /\ name = [p \in Procs |-> Undefined]
    /\ fd = [p \in Procs |-> <<>>]
    /\ exit = [p \in Procs |-> -1]
    /\ err = [p \in Procs |-> ""]
    /\ before = [p \in Procs |-> << >>]
    /\ io = [p \in Procs |-> <<>>]
    /\ authored = Drafts(fs.files)

\* The second before midnight passes.
Midnight ==
    /\ clock.sec = SecPerDay - 1
    /\ clock' = [day |-> clock.day + 1, sec |-> 0]
    /\ UNCHANGED <<parses, fs, pc, args, data, date, name, fd, exit, err, before, io, authored>>

\* Days pass: it is one second before midnight of a later day.
DaysPass ==
    /\ \E d \in SampleDays : d > clock.day /\ clock' = [day |-> d, sec |-> SecPerDay - 1]
    /\ UNCHANGED <<parses, fs, pc, args, data, date, name, fd, exit, err, before, io, authored>>

NextDays ==
    \/ \E p \in Procs, av \in DayArgLists : Quiet(p) /\ Start(p, av)
    \/ \E p \in Procs : ReadDraft(p)
    \/ \E p \in Procs : SampleDate(p)
    \/ \E p \in Procs : OpenPost(p)
    \/ \E p \in Procs : WritePost(p)
    \/ \E c \in Contents : AuthorEdits(NameDigit, c)
    \/ Midnight
    \/ DaysPass

SpecDays == InitDays /\ [][NextDays]_vars

(***************************************************************************)
(* SpecArgs: the script is run with more than one argument, "a b" or       *)
(* "b a", next to the plain "a".  The draft b.md exists; a.md may be       *)
(* missing.                                                                *)
(***************************************************************************)
ManyArgLists == {<<NameA>>, <<NameA, NameB>>, <<NameB, NameA>>}

InitArgs ==
    /\ parses \in BOOLEAN
    /\ clock = StartTime
    /\ \E draftA \in BOOLEAN :
         fs = [dirs |-> (<<PostsName>> :> "rw") @@ (<<DraftsName>> :> "rw")
                          @@ (<<>> :> "rw") @@ (<<DotDot>> :> "rw"),
               files |-> (IF draftA
                          THEN (DraftFile(NameA) :> [data |-> ContentA, readable |-> TRUE])
                          ELSE << >>)
                         @@ (LegacyPost :> [data |-> ContentB, readable |-> TRUE])
                         @@ (DraftFile(NameB) :> [data |-> ContentB, readable |-> TRUE])]
    /\ pc = [p \in Procs |-> "Idle"]
    /\ args = [p \in Procs |-> <<>>]
    /\ data = [p \in Procs |-> Undefined]
    /\ date = [p \in Procs |-> Undefined]
    /\ name = [p \in Procs |-> Undefined]
    /\ fd = [p \in Procs |-> <<>>]
    /\ exit = [p \in Procs |-> -1]
    /\ err = [p \in Procs |-> ""]
    /\ before = [p \in Procs |-> << >>]
    /\ io = [p \in Procs |-> <<>>]
    /\ authored = Drafts(fs.files)

NextArgs ==
    \/ \E p \in Procs, av \in ManyArgLists : Quiet(p) /\ Start(p, av)
    \/ \E p \in Procs : ReadDraft(p)
    \/ \E p \in Procs : SampleDate(p)
    \/ \E p \in Procs : OpenPost(p)
    \/ \E p \in Procs : WritePost(p)
    \/ Tick

SpecArgs == InitArgs /\ [][NextArgs]_vars

(***************************************************************************)
(* Vocabulary of the properties.                                           *)
(***************************************************************************)
\* The file name the specification asks for: {year}-{month}-{day}-{b}.md with
\* the full year, the 1-based month and the day of the month, unpadded.
DatedName(t, b) ==
    NumStr(YearFromTime(t)) \o Dash \o NumStr(MonthFromTime(t) + 1) \o Dash
      \o NumStr(DateFromTime(t)) \o Dash \o b \o MdExt

\* Invocation p is the one that started last.
Latest(p) == pc[p] # "Idle" /\ \A q \in Procs : q > p => pc[q] = "Idle"

\* The post invocation p writes to: the computed file name, in the posts.
Target(p) == <<PostsName, name[p]>>

\* The posts location is missing, or refuses writes.
PostsUnwritable == <<PostsName>> \notin DOMAIN fs.dirs \/ fs.dirs[<<PostsName>>] # "rw"

\* Invocation p has called readFileSync, and the draft was not there to be read.
DraftWasMissing(p) == Len(io[p]) >= 1 /\ ~io[p][1].ok

\* Invocation p has called writeFileSync.
ReachedWrite(p) == Len(io[p]) >= 2

(***************************************************************************)
(* C1.  A successful publish of base name b, whose draft held content C,   *)
(* leaves the post {year}-{month}-{day}-{b}.md, holding exactly C.         *)
(* The code copies C unchanged, but to a file of another name (see C2).    *)
(***************************************************************************)
C1_PublishLeavesDatedCopy ==
    \A p \in Procs :
        (pc[p] = "Done" /\ Latest(p) /\ args[p] # <<>>) =>
            LET f == <<PostsName, DatedName(date[p], args[p][1])>>
            IN  f \in DOMAIN fs.files /\ fs.files[f].data = data[p]

(***************************************************************************)
(* C2.  The file name the script builds is year-month-day-baseName.md, the *)
(* third segment being the day of the month, a number in 1..31.            *)
(* Line 12 concatenates the Date object instead of the variable day.       *)
(***************************************************************************)
C2_FileNameIsYearMonthDay ==
    \A p \in Procs :
        (name[p] # Undefined /\ args[p] # <<>>) =>
            name[p] = DatedName(date[p], args[p][1])

(***************************************************************************)
(* C3.  An invocation without argument fails: it ends Failed with a        *)
(* non-zero exit status, reads no draft under a made-up name, and creates  *)
(* or changes no post.  The code has no check of args: it reads            *)
(* _drafts/undefined.md and publishes it when it exists.                   *)
(***************************************************************************)
C3_NoArgumentFails ==
    \A p \in Procs :
        (pc[p] # "Idle" /\ Latest(p) /\ args[p] = <<>>) =>
            /\ pc[p] \in {"Loaded", "Failed"}
            /\ pc[p] = "Failed" => exit[p] # 0
            /\ data[p] = Undefined
            /\ Posts(fs.files) = before[p]

(***************************************************************************)
(* C4.  An invocation whose draft does not exist, or cannot be read, ends  *)
(* Failed with a non-zero exit status, and the posts are exactly what they *)
(* were when it started.                                                   *)
(***************************************************************************)
C4_MissingDraftFailsCleanly ==
    \A p \in Procs :
        /\ (Latest(p) /\ DraftWasMissing(p)) =>
               /\ pc[p] = "Failed"
               /\ exit[p] # 0
               /\ err[p] \in {"ENOENT", "EACCES"}
               /\ Posts(fs.files) = before[p]
        \* the file as committed: it fails before it looks for any draft
        /\ (Latest(p) /\ ~parses) =>
               /\ pc[p] = "Failed" /\ exit[p] # 0
               /\ Posts(fs.files) = before[p]

C4_Witness ==
    \E p, q \in Procs :
        /\ Latest(q) /\ args[p] # <<>> /\ args[q] # <<>>
        /\ DraftWasMissing(p) /\ err[p] = "ENOENT"
        /\ DraftWasMissing(q) /\ err[q] = "EACCES" /\ pc[q] = "Failed"
        /\ before[q] # << >>

(***************************************************************************)
(* C5.  When the posts location does not exist or is not writable, an      *)
(* invocation that gets to its write fails there with a write error and a  *)
(* non-zero exit status; no invocation ends with status 0; and neither a   *)
(* draft nor an existing post is changed.                                  *)
(***************************************************************************)
C5_UnwritablePostsFail ==
    PostsUnwritable =>
        \A p \in Procs :
            /\ pc[p] \in Terminal => (pc[p] = "Failed" /\ exit[p] # 0)
            /\ ReachedWrite(p) =>
                  /\ pc[p] = "Failed" /\ exit[p] # 0
                  /\ ~io[p][2].ok /\ Len(io[p]) = 2
                  /\ err[p] \in {"ENOENT", "EACCES"}
            /\ Latest(p) => Posts(fs.files) = before[p]
            /\ Drafts(fs.files) = authored

C5_Witness ==
    \E p, q \in Procs :
        /\ <<PostsName>> \notin DOMAIN fs.dirs
        /\ ReachedWrite(p) /\ pc[p] = "Failed" /\ err[p] = "ENOENT"
        /\ ReachedWrite(q) /\ pc[q] = "Failed" /\ data[q] = ContentB
        /\ authored # << >>

\* The same, for a posts location that refuses writes.
C5_WitnessReadOnly ==
    \E p \in Procs :
        /\ <<PostsName>> \in DOMAIN fs.dirs /\ fs.dirs[<<PostsName>>] = "ro"
        /\ ReachedWrite(p) /\ pc[p] = "Failed" /\ err[p] = "EACCES"
        /\ before[p] # << >>

(***************************************************************************)
(* C6.  When the posts already hold a file of the target name, a           *)
(* successful publish replaces its content by the draft content that was   *)
(* read: the post holds exactly that content, not the old one, and not a   *)
(* mixture of the old and the new.                                         *)
(***************************************************************************)
C6_OverwriteNotAppend ==
    \A p \in Procs :
        (Latest(p) /\ pc[p] = "Done") =>
            /\ Target(p) \in DOMAIN fs.files
            /\ fs.files[Target(p)].data = data[p]

C6_Witness ==
    \E p \in Procs :
        /\ Latest(p) /\ pc[p] = "Done"
        /\ io[p][2].old = ContentA /\ data[p] = ContentB
        /\ fs.files[Target(p)].data = ContentB

(***************************************************************************)
(* C7.  Two successive invocations with the same base name on the same     *)
(* calendar date compute the same file name, and after the second the      *)
(* posts hold one file for them, with the content the second one read.     *)
(* The name the code computes carries the time of day (see C2), so two     *)
(* runs a second apart write two files.                                    *)
(***************************************************************************)
C7_SameDaySameFile ==
    \A p, q \in Procs :
        (/\ p < q /\ Latest(q) /\ pc[p] = "Done" /\ pc[q] = "Done"
         /\ args[p] # <<>> /\ args[p] = args[q]
         /\ date[p].day = date[q].day) =>
            /\ name[p] = name[q]
            /\ fs.files[Target(p)].data = data[q]
            /\ data[p] = data[q] => Posts(fs.files) = before[q]

(***************************************************************************)
(* C8.  The exit status is 0 exactly when the invocation succeeded (the    *)
(* draft was read and the post written), and every error condition, a      *)
(* missing argument among them, gives a non-zero status.                   *)
(* Without argument the code succeeds when _drafts/undefined.md exists     *)
(* (see C3).                                                               *)
(***************************************************************************)
C8_ExitStatus ==
    \A p \in Procs :
        pc[p] \in Terminal =>
            /\ exit[p] = 0 <=> (pc[p] = "Done" /\ Len(io[p]) = 3 /\ io[p][3].ok)
            /\ pc[p] = "Failed" => (exit[p] # 0 /\ err[p] # "")
            /\ args[p] = <<>> => exit[p] # 0

(***************************************************************************)
(* C9.  No invocation, successful or failed, changes a draft: the drafts   *)
(* are always exactly as the author left them, none created, renamed or    *)
(* deleted.                                                                *)
(***************************************************************************)
C9_DraftsUntouched == Drafts(fs.files) = authored

C9_Witness ==
    \E p, q \in Procs :
        /\ pc[p] = "Done" /\ pc[q] = "Failed" /\ err[q] = "ENOSPC"
        /\ \E f \in DOMAIN authored : authored[f].data = ContentB

(***************************************************************************)
(* C10.  An invocation changes at most one post, the one of the file name  *)
(* it computed: every other post keeps its name and its content, and no    *)
(* post that was ever there is deleted.                                    *)
(***************************************************************************)
C10_OnlyTargetChanges ==
    \A p \in Procs :
        /\ DOMAIN before[p] \subseteq DOMAIN fs.files
        /\ Latest(p) =>
              /\ \A f \in DOMAIN before[p] : f # Target(p) => fs.files[f] = before[p][f]
              /\ \A f \in DOMAIN Posts(fs.files) : f \notin DOMAIN before[p] => f = Target(p)

C10_Witness ==
    \E p \in Procs :
        /\ Latest(p) /\ pc[p] = "Done"
        /\ Cardinality(DOMAIN before[p]) = 2
        /\ Cardinality(DOMAIN Posts(fs.files)) = 3

(***************************************************************************)
(* C11.  No partial output: once an invocation has ended, also by a        *)
(* failure during the write, its target post is absent, or holds its       *)
(* complete previous content, or holds the complete draft content; never a *)
(* truncation.  writeFileSync truncates the file when it opens it and then *)
(* writes into it: a write that fails leaves what was written so far.      *)
(***************************************************************************)
C11_NoPartialOutput ==
    \A p \in Procs :
        (Latest(p) /\ pc[p] \in Terminal /\ ReachedWrite(p)) =>
            \/ Target(p) \notin DOMAIN fs.files
            \/ fs.files[Target(p)].data = data[p]
            \/ /\ io[p][2].old # Undefined
               /\ fs.files[Target(p)].data = io[p][2].old

(***************************************************************************)
(* C16.  Month and day are rendered without zero-padding: the file name    *)
(* goes on, after the four digits of the year, with "-", the month number, *)
(* "-", the day number, "-" (March 7 gives "-3-7-").  The month is so      *)
(* rendered; the day segment is not a number at all (line 12, see C2).     *)
(***************************************************************************)
C16_NoZeroPadding ==
    \A p \in Procs :
        name[p] # Undefined =>
            LET seg == Dash \o NumStr(MonthFromTime(date[p]) + 1) \o Dash
                            \o NumStr(DateFromTime(date[p])) \o Dash
            IN  /\ Len(name[p]) >= 4 + Len(seg)
                /\ SubSeq(name[p], 5, 4 + Len(seg)) = seg

(***************************************************************************)
(* C19.  Each invocation reads at most one file and writes at most one,    *)
(* and it opens and writes the post only after its read of the draft has   *)
(* succeeded: the posts never change in a run that has not read its draft. *)
(***************************************************************************)
OpsOf(p, o) == {i \in DOMAIN io[p] : io[p][i].op = o}

C19_OneReadThenOneWrite ==
    \A p \in Procs :
        /\ Cardinality(OpsOf(p, "read")) <= 1
        /\ Cardinality(OpsOf(p, "open")) <= 1
        /\ Cardinality(OpsOf(p, "write")) <= 1
        /\ \A i \in OpsOf(p, "open") \cup OpsOf(p, "write") :
               /\ \E j \in OpsOf(p, "read") : j < i /\ io[p][j].ok
               /\ data[p] # Undefined
        /\ \A i \in OpsOf(p, "write") : \E j \in OpsOf(p, "open") : j < i /\ io[p][j].ok
        /\ (Latest(p) /\ Posts(fs.files) # before[p]) =>
               \E j \in OpsOf(p, "read") : io[p][j].ok

\* An invocation that read its draft, then opened and wrote its post.
C19_Witness ==
    \E p \in Procs :
        /\ pc[p] = "Done"
        /\ [i \in DOMAIN io[p] |-> io[p][i].op] = <<"read", "open", "write">>
        /\ Posts(fs.files) # before[p]

(***************************************************************************)
(* C20.  The content written is the content the draft had at the moment of *)
(* the read: data holds what the draft held when line 5 read it, and the   *)
(* post of a completed run holds that content, also when the author has    *)
(* changed the draft between the read and the write.                       *)
(***************************************************************************)
C20_WritesWhatWasRead ==
    \A p \in Procs :
        /\ (Len(io[p]) >= 1 /\ io[p][1].ok) => data[p] = io[p][1].draft
        /\ (Latest(p) /\ pc[p] = "Done") =>
               /\ Target(p) \in DOMAIN fs.files
               /\ fs.files[Target(p)].data = io[p][1].draft

\* The author changed the draft between the read and the write, and the
\* post holds the content that was read.
C20_Witness ==
    \E p \in Procs :
        /\ Latest(p) /\ pc[p] = "Done"
        /\ io[p][3].op = "write"
        /\ io[p][3].draft # io[p][1].draft
        /\ fs.files[Target(p)].data = io[p][1].draft
        /\ fs.files[Target(p)].data # DraftNow(p)

(***************************************************************************)
(* C14.  The year segment of the file name is the full four-digit year of  *)
(* the current date: year = getYear() + 1900 is the calendar year the date *)
(* lies in (January 1st of year <= date < January 1st of year + 1), and    *)
(* the file name starts with its four digits followed by "-".  Checked     *)
(* under SpecDate, for every day from 1970 to the end of MaxYear.          *)
(***************************************************************************)
C14_FullYear ==
    \A p \in Procs :
        name[p] # Undefined =>
            LET y == year(date[p])
            IN  /\ DayFromYear(y) <= date[p].day
                /\ date[p].day < DayFromYear(y + 1)
                /\ y \in 1970..MaxYear
                /\ Len(NumStr(y)) = 4
                /\ SubSeq(name[p], 1, 5) = NumStr(y) \o Dash

\* A run on the last day of 2024: the name starts with "2024-".
C14_Witness ==
    \E p \in Procs :
        /\ pc[p] = "Done"
        /\ date[p].day = DayFromYear(2025) - 1
        /\ year(date[p]) = 2024
        /\ SubSeq(name[p], 1, 5) = <<"2", "0", "2", "4", "-">>

(***************************************************************************)
(* C15.  The month segment of the file name is the 1-based month of the    *)
(* current date: month = getMonth() + 1 is in 1..12, it is the month the   *)
(* day of the year falls in, 1 on the 31 days of January and 12 on the     *)
(* last 31 days of the year, and the file name carries it after the year.  *)
(* Checked under SpecDate.                                                 *)
(***************************************************************************)
C15_MonthOneBased ==
    \A p \in Procs :
        name[p] # Undefined =>
            LET m == month(date[p])
                y == year(date[p])
                d == date[p].day - DayFromYear(y)
                n == DayFromYear(y + 1) - DayFromYear(y)
            IN  /\ m \in 1..12
                /\ MonthStart(m - 1, n = 366) <= d
                /\ d < MonthStart(m, n = 366)
                /\ (d < 31) <=> (m = 1)
                /\ (d >= n - 31) <=> (m = 12)
                /\ SubSeq(name[p], 5, 6 + Len(NumStr(m))) = Dash \o NumStr(m) \o Dash

\* A run on a first of December: the name goes on "-12-" after the year.
C15_Witness ==
    \E p \in Procs :
        /\ pc[p] = "Done"
        /\ date[p].day = DayFromYear(2025) - 31
        /\ month(date[p]) = 12
        /\ SubSeq(name[p], 5, 8) = <<"-", "1", "2", "-">>

(***************************************************************************)
(* C17.  The publisher stays inside its two locations: the file it writes  *)
(* lies directly in the posts, and whatever the base name is, also one     *)
(* with a directory component ("../x", "a/b"), the file it reads lies      *)
(* under the drafts and no file outside the posts is created or changed.   *)
(* Checked under SpecPath.  The script joins args[0] into the path as it   *)
(* is: with "../x" line 5 reads x.md of the site's directory.              *)
(***************************************************************************)
C17_StaysInsideLocations ==
    \A p \in Procs :
        /\ data[p] # Undefined =>
               LET r == Resolve(fs, DraftPath(args[p]))
               IN  r.ok /\ Len(r.path) >= 2 /\ r.path[1] = DraftsName
        /\ fd[p] # <<>> => Parent(fd[p]) = <<PostsName>>
        /\ \A rp \in DOMAIN fs.files :
               Parent(rp) \notin {<<PostsName>>, <<DraftsName>>} =>
                   fs.files[rp].data = ContentB

(***************************************************************************)
(* C12.  Concurrent invocations for different base names are independent.  *)
(* Under SpecConc, whatever the interleaving: an invocation that has       *)
(* completed, and whose base name no other started invocation has, shares  *)
(* its target with no other invocation, and its post holds the content of  *)
(* its own draft, as it was read; every file of the posts is the post that *)
(* was there before, unchanged, or the target of an invocation.  That is   *)
(* the posts location the runs leave when made one after the other.        *)
(***************************************************************************)
BaseName(p) == ToStr(Arg0(args[p]))

AloneOnName(p) ==
    \A q \in Procs \ {p} : pc[q] # "Idle" => BaseName(q) # BaseName(p)

C12_DifferentNamesIndependent ==
    /\ \A p \in Procs :
           (pc[p] = "Done" /\ AloneOnName(p)) =>
               /\ \A q \in Procs \ {p} : name[q] # Undefined => Target(q) # Target(p)
               /\ Target(p) \in DOMAIN fs.files
               /\ fs.files[Target(p)].data = data[p]
               /\ data[p] = io[p][1].draft
    /\ \A rp \in DOMAIN Posts(fs.files) :
           \/ rp = LegacyPost /\ fs.files[rp].data = ContentB
           \/ \E q \in Procs : name[q] # Undefined /\ rp = Target(q)

\* Two invocations, for a and for b, ran interleaved (neither saw the
\* other's post when it started), and each post holds its own draft.
C12_Witness ==
    \E p, q \in Procs :
        /\ pc[p] = "Done" /\ pc[q] = "Done"
        /\ args[p] = <<NameA>> /\ args[q] = <<NameB>>
        /\ Target(q) \notin DOMAIN before[p]
        /\ Target(p) \notin DOMAIN before[q]
        /\ fs.files[Target(p)].data = ContentA
        /\ fs.files[Target(q)].data = ContentB

(***************************************************************************)
(* C13.  Concurrent invocations for the same base name on the same date    *)
(* race with last-writer-wins: once all of them have completed, the target *)
(* post holds the content one of them read, never a mixture.  Under        *)
(* SpecConc two invocations may both open (and truncate) the post before   *)
(* either writes; the second write then lands on top of the first.         *)
(***************************************************************************)
C13_LastWriterWins ==
    \A p \in Procs :
        LET same == {q \in Procs : pc[q] # "Idle" /\ args[q] = args[p]}
        IN  (pc[p] = "Done" /\ \A q \in same : pc[q] = "Done" /\ date[q].day = date[p].day) =>
                /\ Target(p) \in DOMAIN fs.files
                /\ fs.files[Target(p)].data \in {data[q] : q \in same}

(***************************************************************************)
(* C18, as stated.  An invocation is a two-state machine: from Idle it     *)
(* moves in one step to a terminal state, Done or Failed; once terminal no *)
(* action of it is enabled; every started invocation eventually reaches a  *)
(* terminal state.  The first part fails: the statements of lines 4-13 are *)
(* separate steps, and the invocation is in neither state between them.    *)
(***************************************************************************)
C18_TwoStateMachine ==
    /\ [][\A p \in Procs : (pc[p] = "Idle" /\ pc'[p] # "Idle") => pc'[p] \in Terminal]_vars
    /\ [](\A p \in Procs : pc[p] \in Terminal => ~ENABLED Run(p))
    /\ \A p \in Procs : (pc[p] # "Idle") ~> (pc[p] \in Terminal)

(***************************************************************************)
(* C18, amended.  An invocation starts in Idle and passes through its      *)
(* statements in order (loaded, draft read, name computed, post opened);   *)
(* a failure leads directly to Failed, a completed write to Done.  Once    *)
(* terminal no action of the invocation is enabled and its state never     *)
(* changes (no retry, no recovery), and every started invocation           *)
(* eventually reaches a terminal state.  Checked under FairSpec.           *)
(***************************************************************************)
PcSteps ==
    {<<"Idle", "Loaded">>, <<"Idle", "Failed">>, <<"Loaded", "Read">>, <<"Loaded", "Failed">>,
     <<"Read", "Named">>, <<"Named", "Opened">>, <<"Named", "Failed">>,
     <<"Opened", "Done">>, <<"Opened", "Failed">>}

C18_RunsToOneTerminalState ==
    /\ [][\A p \in Procs :
            /\ pc'[p] # pc[p] => <<pc[p], pc'[p]>> \in PcSteps
            /\ pc[p] \in Terminal =>
                 /\ pc'[p] = pc[p] /\ exit'[p] = exit[p] /\ err'[p] = err[p]
                 /\ io'[p] = io[p] /\ data'[p] = data[p] /\ name'[p] = name[p]]_vars
    /\ [](\A p \in Procs :
            /\ pc[p] \in Terminal => ~ENABLED Run(p) /\ ~ENABLED (\E av \in ArgLists : Start(p, av))
            /\ pc[p] = "Done" => exit[p] = 0
            /\ pc[p] = "Failed" => exit[p] = 1)
    /\ \A p \in Procs : (pc[p] # "Idle") ~> (pc[p] \in Terminal)

\* One invocation has failed and another has completed.
C18_Witness ==
    \E p, q \in Procs :
        /\ pc[p] = "Failed" /\ Len(io[p]) >= 1
        /\ pc[q] = "Done" /\ Len(io[q]) = 3

(***************************************************************************)
(* C21.  The file name separates dates and base names: two invocations     *)
(* compute the same file name only if they ran on the same date with the   *)
(* same base name, also for base names that carry digits and hyphens       *)
(* ("1-a" on December 3rd, "-a" on December 31st).  So an invocation that  *)
(* opens an existing post overwrites a post of its own date and base name, *)
(* and every other post is left as it was.  Checked under SpecDays.        *)
(***************************************************************************)
C21_FileNameInjective ==
    /\ \A p, q \in Procs :
           (name[p] # Undefined /\ name[q] # Undefined /\ name[p] = name[q]) =>
               /\ date[p].day = date[q].day
               /\ BaseName(p) = BaseName(q)
    /\ \A p \in Procs :
           (Latest(p) /\ ReachedWrite(p) /\ io[p][2].ok) =>
               /\ Target(p) \in DOMAIN before[p] =>
                      \E q \in Procs \ {p} :
                          /\ name[q] = name[p]
                          /\ date[q].day = date[p].day
                          /\ BaseName(q) = BaseName(p)
               /\ \A rp \in DOMAIN before[p] \ {Target(p)} :
                      rp \in DOMAIN fs.files /\ fs.files[rp] = before[p][rp]

\* "1-a" was published on December 3rd and "-a" on December 31st: two posts,
\* each holding what its run read.
C21_Witness ==
    \E p, q \in Procs :
        /\ pc[p] = "Done" /\ pc[q] = "Done"
        /\ args[p] = <<NameDigit>> /\ date[p].day = DayFromYear(2025) - 29
        /\ args[q] = <<NameHyphen>> /\ date[q].day = DayFromYear(2025) - 1
        /\ Target(p) # Target(q)
        /\ fs.files[Target(p)].data = data[p]
        /\ fs.files[Target(q)].data = data[q]

(***************************************************************************)
(* C22.  Publishing the same base name on two different calendar dates     *)
(* produces two distinct posts: after the second publish the post of the   *)
(* earlier date is still there, as it was when the second run started      *)
(* (with the content the earlier run wrote), and the second run, the first *)
(* of its date for that base name, has added exactly one file to the       *)
(* posts.  Checked under SpecDays.                                         *)
(***************************************************************************)
C22_OnePostPerDate ==
    \A p, q \in Procs :
        (/\ p < q /\ Latest(q) /\ pc[p] = "Done" /\ pc[q] = "Done"
         /\ BaseName(p) = BaseName(q)
         /\ date[p].day # date[q].day) =>
            /\ name[p] # name[q]
            /\ Target(p) \in DOMAIN fs.files
            /\ Target(p) \in DOMAIN before[q]
            /\ fs.files[Target(p)] = before[q][Target(p)]
            /\ (\A r \in Procs \ {p} : name[r] # name[p]) => fs.files[Target(p)].data = data[p]
            /\ Target(q) \in DOMAIN fs.files
            /\ DOMAIN Posts(fs.files) = DOMAIN before[q] \cup {Target(q)}
            /\ (\A r \in Procs \ {q} :
                    pc[r] # "Idle" => (BaseName(r) # BaseName(q) \/ name[r] = Undefined
                                        \/ date[r].day # date[q].day)) =>
                   /\ Target(q) \notin DOMAIN before[q]
                   /\ Cardinality(DOMAIN Posts(fs.files)) = Cardinality(DOMAIN before[q]) + 1

\* "1-a" published on December 3rd and, with a changed draft, again on
\* December 31st: the post of December 3rd still holds the earlier content.
C22_Witness ==
    \E p, q \in Procs :
        /\ p < q /\ pc[p] = "Done" /\ pc[q] = "Done"
        /\ args[p] = <<NameDigit>> /\ args[q] = <<NameDigit>>
        /\ date[p].day = DayFromYear(2025) - 29 /\ date[q].day = DayFromYear(2025) - 1
        /\ data[p] # data[q]
        /\ fs.files[Target(p)].data = data[p]
        /\ fs.files[Target(q)].data = data[q]
        /\ Cardinality(DOMAIN Posts(fs.files)) = 3

(***************************************************************************)
(* C23.  The file name is a function of the current date and of the base   *)
(* name only: two invocations with the same base name on the same calendar *)
(* date compute the same file name, whatever their drafts held.  The draft *)
(* content indeed never enters line 12, but the time of day does (see C2): *)
(* two runs of one day, a second apart, compute two names.                 *)
(***************************************************************************)
C23_NameFromDateAndBaseOnly ==
    \A p, q \in Procs :
        (/\ name[p] # Undefined /\ name[q] # Undefined
         /\ args[p] # <<>> /\ args[p] = args[q]
         /\ date[p].day = date[q].day) =>
            name[p] = name[q]

(***************************************************************************)
(* C24.  Only the first argument is used.  Under SpecArgs, an invocation   *)
(* started with two arguments reads the draft of the first one, writes the *)
(* post named after the first one, fails at the read only when the draft   *)
(* of the first one is missing, and publishes nothing else: the posts      *)
(* change at its own target only.                                          *)
(***************************************************************************)
EndsWith(s, t) == Len(s) >= Len(t) /\ SubSeq(s, Len(s) - Len(t) + 1, Len(s)) = t

C24_OnlyFirstArgument ==
    \A p \in Procs :
        Len(args[p]) >= 2 =>
            LET first == args[p][1]
                second == args[p][2]
            IN  /\ data[p] # Undefined =>
                       /\ DraftFile(first) \in DOMAIN authored
                       /\ data[p] = authored[DraftFile(first)].data
                /\ name[p] # Undefined =>
                       /\ EndsWith(name[p], Dash \o first \o MdExt)
                       /\ ~EndsWith(name[p], Dash \o second \o MdExt)
                /\ (pc[p] = "Failed" /\ Len(io[p]) = 1) =>
                       /\ err[p] = "ENOENT"
                       /\ DraftFile(first) \notin DOMAIN authored
                /\ (pc[p] = "Failed" /\ Len(io[p]) # 1) => err[p] = "ENOSPC"
                /\ pc[p] = "Done" => exit[p] = 0
                /\ Latest(p) =>
                       \A rp \in DOMAIN Posts(fs.files) :
                           \/ rp \in DOMAIN before[p] /\ fs.files[rp] = before[p][rp]
                           \/ rp = Target(p)

\* `publish.js a b` with both drafts there: the post of a is written, with
\* the content of a.md, and no post of b.
C24_Witness ==
    \E p \in Procs :
        /\ Latest(p) /\ pc[p] = "Done" /\ args[p] = <<NameA, NameB>>
        /\ DraftFile(NameB) \in DOMAIN fs.files
        /\ fs.files[Target(p)].data = ContentA
        /\ EndsWith(name[p], Dash \o NameA \o MdExt)
        /\ Cardinality(DOMAIN Posts(fs.files)) = Cardinality(DOMAIN before[p]) + 1

(***************************************************************************)
(* C25.  The date is sampled once per invocation, after the draft has been *)
(* read, and every segment of the file name comes from that one sample:    *)
(* the year segment, the month segment and the rendering of the date that  *)
(* follows them name the year, the month and the day of the same instant,  *)
(* which is not later than the clock; once taken, the sample and the name  *)
(* never change, also while the clock passes midnight and the end of the   *)
(* year.  Checked under SpecDays.  (The third segment is the rendering of  *)
(* the Date object, see C2; it is a rendering of the same sample.)         *)
(***************************************************************************)
NotAfter(t, u) == t.day < u.day \/ (t.day = u.day /\ t.sec <= u.sec)

C25_OneDateSample ==
    /\ [](\A p \in Procs :
            /\ pc[p] \in {"Idle", "Loaded"} => name[p] = Undefined
            /\ name[p] # Undefined =>
                 /\ Len(io[p]) >= 1 /\ io[p][1].ok /\ data[p] # Undefined
                 /\ NotAfter(date[p], clock)
                 /\ \A yy \in {YearFromTime(date[p])}, mm \in {MonthFromTime(date[p])},
                       dd \in {DateFromTime(date[p])} :
                    \A lead \in {NumStr(yy) \o Dash \o NumStr(mm + 1) \o Dash} :
                        /\ SubSeq(name[p], 1, Len(lead)) = lead
                        /\ SubSeq(name[p], Len(lead) + 5, Len(lead) + 7) = MonthName(mm)
                        /\ SubSeq(name[p], Len(lead) + 9, Len(lead) + 10) = Pad2(dd)
                        /\ SubSeq(name[p], Len(lead) + 12, Len(lead) + 15) = NumStr(yy))
    /\ [][\A p \in Procs :
            name[p] # Undefined => (date'[p] = date[p] /\ name'[p] = name[p])]_vars

\* The date was sampled on December 31st, the year has ended since, and the
\* invocation is still between its open and its write.
C25_Witness ==
    \E p \in Procs :
        /\ pc[p] = "Opened"
        /\ date[p] = [day |-> DayFromYear(2025) - 1, sec |-> SecPerDay - 1]
        /\ clock = [day |-> DayFromYear(2025), sec |-> 0]
        /\ SubSeq(name[p], 1, 23) =
             <<"2","0","2","4","-","1","2","-","T","u","e"," ","D","e","c"," ","3","1"," ","2","0","2","4">>

====
